---- MODULE Spec2Model ----
(***************************************************************************)
(* Mini e-commerce backend (src/main.py, src/schemas.py): the document     *)
(* store (collections user, product, order) and the HTTP handlers that     *)
(* read and write it.  Every handler is one atomic action; `request` and   *)
(* `response` record the last request handled and the answer it got.       *)
(* SpecRace runs signup and login as the two store operations each of them *)
(* is, so that requests interleave; `inflight` holds the requests between  *)
(* their two operations.  `history` is a record of the past kept for the   *)
(* claims that speak of it; no handler reads it.                           *)
(*                                                                         *)
(* Encoding.  Identifiers and tokens are integers: None (Python None, a    *)
(* null field) is 0, the empty string is EmptyStr, documents of a          *)
(* collection are numbered 1, 2, ... in insertion order (their _id), and   *)
(* the tokens secrets.token_hex can return are 1..MaxTokens: the draw is   *)
(* random, so login may get any of them.  Prices are integers.  Fields the *)
(* handlers only copy (name, address, description, category, image,        *)
(* in_stock, payment_method, item title/image/product_id) are left out.    *)
(* A request body the handler's payload model rejects is answered 422 by   *)
(* the framework before the handler's own code runs; an exception other    *)
(* than HTTPException inside a handler is answered 500.                    *)
(***************************************************************************)
EXTENDS Integers, Sequences, FiniteSets, TLC

\* ------------------------------------------------------------------ bounds
MaxUsers  == 2
MaxTokens == 2
MaxOid    == 2
MaxOrders == 2
MaxItems  == 2
MaxPrice  == 1
MaxQty    == 2

\* --------------------------------------------------------------- constants
None     == 0
EmptyStr == -1
MinPrice == -1

Emails    == {"admin@x.com", "ann@x.com"}
Passwords == {"pw1", "pw2"}
Tokens    == 1..MaxTokens
Prices    == {MinPrice, MaxPrice}

VARIABLES users, products, nextOid, orders, request, response,
          inflight, history

vars == <<users, products, nextOid, orders, request, response,
          inflight, history>>

\* ------------------------------------------------------------- pure helpers

\* hashlib.sha256(password).hexdigest(): a deterministic digest, never the
\* plaintext itself.
hash_password(password) ==
    CASE password = "pw1" -> "0b14d501"
      [] password = "pw2" -> "6cf615d5"
      [] OTHER            -> "e3b0c442"

\* The Authorization headers a request can carry: none at all, the Bearer
\* scheme with a token or with nothing after the blank, another scheme.
Headers ==
    {[scheme |-> "none", cred |-> EmptyStr]}
    \cup [scheme : {"Bearer"}, cred : Tokens \cup {EmptyStr}]
    \cup [scheme : {"Basic"}, cred : Tokens]

\* BearerToken without the startswith("Bearer ") test.
BearerTokenAnyScheme(authorization) ==
    IF authorization.scheme = "none" THEN None ELSE authorization.cred

\* token = None; if authorization and authorization.startswith("Bearer "):
\*     token = authorization.split(" ", 1)[1]
BearerToken(authorization) ==
    IF authorization.scheme = "Bearer" THEN authorization.cred ELSE None

\* db["user"].find_one(filter): None when no document matches, otherwise one
\* matching document; which one, when several match, is the store's choice.
FindOneUser(field, value) ==
    LET hits == {i \in DOMAIN users : users[i][field] = value}
    IN  IF hits = {} THEN {None} ELSE hits

\* user_from_token without its "if not token: return None" guard.
user_from_token_unguarded(token) ==
    FindOneUser("token", token)

\* user_from_token: the results the lookup can give for a token.
user_from_token(token) ==
    IF token = None \/ token = EmptyStr
    THEN {None}
    ELSE FindOneUser("token", token)

\* NotAdmin without the is_admin test.
NotAuthenticated(user) == user = None

\* create_document(collection_name, data) of the database module: stamps
\* the document with its creation time, inserts it and returns its new _id.
\* The user and order collections never lose a document, so the _id is the
\* position; a product gets the next unused ObjectId.  Creation times are
\* readings of a clock that has advanced between two inserts into the same
\* collection: the n-th insert reads n.
create_document(coll, doc) ==
    Append(coll, doc @@ [created_at |-> Len(coll) + 1])

create_product_document(coll, oid, doc) ==
    [i \in DOMAIN coll \cup {oid} |-> IF i = oid THEN doc ELSE coll[i]]

\* not user or not user.get("is_admin", False)
NotAdmin(user) == user = None \/ ~users[user].is_admin

\* ------------------------------------------------------------------- Init
\* The store as the process finds it once started: the user collection is
\* empty, or holds an administrator created out of band (no endpoint sets
\* is_admin), or that administrator and a user who signed up earlier; the
\* product collection is not empty (seed_products fills an empty one with its
\* samples), one product standing for the catalog.
AdminRecord ==
    [email |-> "admin@x.com", password_hash |-> hash_password("pw1"),
     is_admin |-> TRUE, token |-> None, created_at |-> 1]

AnnRecord ==
    [email |-> "ann@x.com", password_hash |-> hash_password("pw2"),
     is_admin |-> FALSE, token |-> None, created_at |-> 2]

Init ==
    /\ users \in {<<>>, <<AdminRecord>>, <<AdminRecord, AnnRecord>>}
    /\ products = [i \in {1} |-> [price |-> MaxPrice]]
    /\ nextOid = 2
    /\ orders = <<>>
    /\ request = [op |-> "startup"]
    /\ response = [status |-> 200]
    /\ inflight = {}
    /\ history = <<>>

\* ------------------------------------------------------------ auth handlers

\* AlreadyRegistered without the test.
NeverRegistered(existing) == FALSE

\* if existing: raise HTTPException(status_code=400, ...)
AlreadyRegistered(existing) == existing # None

\* NewUser with the first account made an administrator.
NewUserFirstIsAdmin(email, password) ==
    [email |-> email, password_hash |-> hash_password(password),
     is_admin |-> users = <<>>, token |-> None]

\* new_user = User(..., is_admin=False, address=None, token=None)
NewUser(email, password) ==
    [email |-> email, password_hash |-> hash_password(password),
     is_admin |-> FALSE, token |-> None]

\* POST /api/auth/signup
signup(email, password) ==
    /\ request' = [op |-> "signup", email |-> email, password |-> password]
    /\ \E existing \in FindOneUser("email", email) :
          IF AlreadyRegistered(existing)
          THEN /\ response' = [status |-> 400]
               /\ UNCHANGED users
          ELSE /\ Len(users) < MaxUsers
               /\ users' = create_document(users, NewUser(email, password))
               /\ response' = [status |-> 200, user_id |-> Len(users) + 1]
    /\ UNCHANGED <<products, nextOid, orders>>

\* InvalidCredentials without the digest comparison.
UnknownEmail(user, password) == user = None

\* not user or user.get("password_hash") != hash_password(payload.password)
InvalidCredentials(user, password) ==
    user = None \/ users[user].password_hash # hash_password(password)

\* POST /api/auth/login
login(email, password) ==
    /\ request' = [op |-> "login", email |-> email, password |-> password]
    /\ \E user \in FindOneUser("email", email) :
          IF InvalidCredentials(user, password)
          THEN /\ response' = [status |-> 401]
               /\ UNCHANGED users
          ELSE \E token \in Tokens :
               /\ users' = [users EXCEPT ![user].token = token]
               /\ response' = [status |-> 200, token |-> token, user |-> user,
                               is_admin |-> users[user].is_admin]
    /\ UNCHANGED <<products, nextOid, orders>>

\* GET /api/me
me(authorization) ==
    /\ request' = [op |-> "me", authorization |-> authorization]
    /\ \E user \in user_from_token(BearerToken(authorization)) :
          IF user = None
          THEN response' = [status |-> 401, user |-> None]
          ELSE response' = [status |-> 200, user |-> user,
                            email |-> users[user].email,
                            is_admin |-> users[user].is_admin]
    /\ UNCHANGED <<users, products, nextOid, orders>>

\* ------------------------------------- signup and login, operation by operation
\* The handlers are plain functions, which the framework runs on a pool of
\* threads: between the find_one of a request and its write, other requests
\* run.  A request in flight carries what its find_one returned; `during` is
\* the set of requests that were in flight when it started.  `history` lists
\* the requests answered, in the order of their answers.

MaxRequests == 2

NextId == Cardinality(inflight) + Len(history) + 1

InFlightIds == {r.id : r \in inflight}

\* signup up to its raise: existing = db["user"].find_one({"email": ...})
signup_find(email, password) ==
    /\ NextId <= MaxRequests
    /\ request' = [op |-> "signup", email |-> email, password |-> password]
    /\ \E existing \in FindOneUser("email", email) :
          IF AlreadyRegistered(existing)
          THEN /\ response' = [status |-> 400]
               /\ history' = Append(history,
                      [id |-> NextId, op |-> "signup", email |-> email,
                       status |-> 400, during |-> InFlightIds])
               /\ UNCHANGED inflight
          ELSE /\ inflight' = inflight \cup
                      {[id |-> NextId, op |-> "signup", email |-> email,
                        password |-> password, during |-> InFlightIds]}
               /\ UNCHANGED <<response, history>>
    /\ UNCHANGED <<users, products, nextOid, orders>>

\* signup from new_user = User(...) on: create_document("user", new_user)
signup_insert(r) ==
    /\ r.op = "signup"
    /\ Len(users) < MaxUsers
    /\ request' = [op |-> "signup", email |-> r.email, password |-> r.password]
    /\ users' = create_document(users, NewUser(r.email, r.password))
    /\ response' = [status |-> 200, user_id |-> Len(users) + 1]
    /\ inflight' = inflight \ {r}
    /\ history' = Append(history,
           [id |-> r.id, op |-> "signup", email |-> r.email, status |-> 200,
            during |-> r.during])
    /\ UNCHANGED <<products, nextOid, orders>>

\* login up to its raise: user = db["user"].find_one({"email": ...})
login_find(email, password) ==
    /\ NextId <= MaxRequests
    /\ request' = [op |-> "login", email |-> email, password |-> password]
    /\ \E user \in FindOneUser("email", email) :
          IF InvalidCredentials(user, password)
          THEN /\ response' = [status |-> 401]
               /\ history' = Append(history,
                      [id |-> NextId, op |-> "login", email |-> email,
                       status |-> 401, during |-> InFlightIds])
               /\ UNCHANGED inflight
          ELSE /\ inflight' = inflight \cup
                      {[id |-> NextId, op |-> "login", email |-> email,
                        password |-> password, user |-> user,
                        is_admin |-> users[user].is_admin,
                        during |-> InFlightIds]}
               /\ UNCHANGED <<response, history>>
    /\ UNCHANGED <<users, products, nextOid, orders>>

\* login from token = secrets.token_hex(16) on: update_one by _id
login_update(r) ==
    /\ r.op = "login"
    /\ request' = [op |-> "login", email |-> r.email, password |-> r.password]
    /\ \E token \in Tokens :
          /\ users' = [users EXCEPT ![r.user].token = token]
          /\ response' = [status |-> 200, token |-> token, user |-> r.user,
                          is_admin |-> r.is_admin]
          /\ history' = Append(history,
                 [id |-> r.id, op |-> "login", email |-> r.email,
                  status |-> 200, user |-> r.user, token |-> token,
                  during |-> r.during])
    /\ inflight' = inflight \ {r}
    /\ UNCHANGED <<products, nextOid, orders>>

\* --------------------------------------------------------- product handlers

\* The JSON bodies a product request can carry.  ProductPayload requires
\* title, price and category; a body without its title is one the framework
\* rejects (422) before the handler is called.
ProductBodies ==
    [has_title : {TRUE}, price : Prices]
    \cup {[has_title |-> FALSE, price |-> MaxPrice]}

ProductPayloadValid(body) == body.has_title

\* Product(**payload.model_dump()): price has ge=0.
ProductValid(payload) == payload.price >= 0

\* The strings a {product_id} path segment can be: the 24-digit hex form of
\* an ObjectId, or NotHex, a string ObjectId() raises on.
NotHex == -2
IdStrings == (1..MaxOid) \cup {NotHex}

\* ObjectId(product_id); None stands for the exception.
ObjectId(s) == IF s \in 1..MaxOid THEN s ELSE None

\* update_one without its {"_id": oid} filter: every product is set.
UpdateMany(coll, oid, payload) ==
    [i \in DOMAIN coll |-> [price |-> payload.price]]

\* db["product"].update_one({"_id": oid}, {"$set": update})
UpdateOne(coll, oid, payload) ==
    [coll EXCEPT ![oid] = [price |-> payload.price]]

\* db["product"].delete_one({"_id": oid})
DeleteOne(coll, oid) == [i \in DOMAIN coll \ {oid} |-> coll[i]]

\* create_product with Product(**payload.model_dump()) built before the
\* admin test.
create_product_validating_first(body, authorization) ==
    /\ request' = [op |-> "create_product", body |-> body,
                   authorization |-> authorization]
    /\ IF ~ProductPayloadValid(body)
       THEN /\ response' = [status |-> 422, user |-> None]
            /\ UNCHANGED <<products, nextOid>>
       ELSE \E user \in user_from_token(BearerToken(authorization)) :
            IF ~ProductValid(body)
            THEN /\ response' = [status |-> 500, user |-> user]
                 /\ UNCHANGED <<products, nextOid>>
            ELSE IF NotAdmin(user)
            THEN /\ response' = [status |-> 403, user |-> user]
                 /\ UNCHANGED <<products, nextOid>>
            ELSE /\ nextOid <= MaxOid
                 /\ products' = create_product_document(products, nextOid,
                                                        [price |-> body.price])
                 /\ nextOid' = nextOid + 1
                 /\ response' = [status |-> 200, user |-> user,
                                 product_id |-> nextOid]
    /\ UNCHANGED <<users, orders>>

\* POST /api/products
create_product(body, authorization) ==
    /\ request' = [op |-> "create_product", body |-> body,
                   authorization |-> authorization]
    /\ IF ~ProductPayloadValid(body)
       THEN /\ response' = [status |-> 422, user |-> None]
            /\ UNCHANGED <<products, nextOid>>
       ELSE \E user \in user_from_token(BearerToken(authorization)) :
            IF NotAdmin(user)
            THEN /\ response' = [status |-> 403, user |-> user]
                 /\ UNCHANGED <<products, nextOid>>
            ELSE IF ~ProductValid(body)
            THEN /\ response' = [status |-> 500, user |-> user]
                 /\ UNCHANGED <<products, nextOid>>
            ELSE /\ nextOid <= MaxOid
                 /\ products' = create_product_document(products, nextOid,
                                                        [price |-> body.price])
                 /\ nextOid' = nextOid + 1
                 /\ response' = [status |-> 200, user |-> user,
                                 product_id |-> nextOid]
    /\ UNCHANGED <<users, orders>>

\* PUT /api/products/{product_id}
update_product(product_id, body, authorization) ==
    /\ request' = [op |-> "update_product", product_id |-> product_id,
                   body |-> body, authorization |-> authorization]
    /\ IF ~ProductPayloadValid(body)
       THEN /\ response' = [status |-> 422, user |-> None]
            /\ UNCHANGED products
       ELSE \E user \in user_from_token(BearerToken(authorization)) :
            IF NotAdmin(user)
            THEN /\ response' = [status |-> 403, user |-> user]
                 /\ UNCHANGED products
            ELSE IF ObjectId(product_id) = None
            THEN /\ response' = [status |-> 400, user |-> user]
                 /\ UNCHANGED products
            ELSE IF ObjectId(product_id) \notin DOMAIN products
            THEN /\ response' = [status |-> 404, user |-> user]
                 /\ UNCHANGED products
            ELSE /\ products' = UpdateOne(products, ObjectId(product_id), body)
                 /\ response' = [status |-> 200, user |-> user]
    /\ UNCHANGED <<users, nextOid, orders>>

\* DELETE /api/products/{product_id}
delete_product(product_id, authorization) ==
    /\ request' = [op |-> "delete_product", product_id |-> product_id,
                   authorization |-> authorization]
    /\ \E user \in user_from_token(BearerToken(authorization)) :
          IF NotAdmin(user)
          THEN /\ response' = [status |-> 403, user |-> user]
               /\ UNCHANGED products
          ELSE IF ObjectId(product_id) = None
          THEN /\ response' = [status |-> 400, user |-> user]
               /\ UNCHANGED products
          ELSE IF ObjectId(product_id) \notin DOMAIN products
          THEN /\ response' = [status |-> 404, user |-> user]
               /\ UNCHANGED products
          ELSE /\ products' = DeleteOne(products, ObjectId(product_id))
               /\ response' = [status |-> 200, user |-> user]
    /\ UNCHANGED <<users, nextOid, orders>>

\* The values of the ?search= parameter: absent, empty, or Pattern, a regular
\* expression that is not empty.
Pattern == 1
Searches == {None, EmptyStr, Pattern}

\* list_products that also fills an empty collection, as seed_products does.
list_products_reseeding(search) ==
    /\ request' = [op |-> "list_products", search |-> search]
    /\ IF DOMAIN products = {} /\ nextOid <= MaxOid
       THEN /\ products' = create_product_document(products, nextOid,
                                                   [price |-> MaxPrice])
            /\ nextOid' = nextOid + 1
       ELSE UNCHANGED <<products, nextOid>>
    /\ response' = [status |-> 200,
                    products |-> {[_id |-> i, doc |-> products'[i]] :
                                     i \in DOMAIN products'}]
    /\ UNCHANGED <<users, orders>>

\* GET /api/products: with no search, or an empty one, the query is {} and
\* every product is returned; otherwise the products whose title or category
\* the pattern matches.  Titles and categories are not part of the product
\* records here, so the products a pattern matches are any of those stored.
list_products(search) ==
    /\ request' = [op |-> "list_products", search |-> search]
    /\ \E found \in IF search = None \/ search = EmptyStr
                     THEN {DOMAIN products}
                     ELSE SUBSET DOMAIN products :
          response' = [status |-> 200,
                       products |-> {[_id |-> i, doc |-> products[i]] :
                                        i \in found}]
    /\ UNCHANGED <<users, products, nextOid, orders>>

\* ----------------------------------------------------------- order handlers

\* OrderItem: price is any float, quantity has ge=1.  The items a well-formed
\* body can list:
Items == [price : Prices, quantity : 1..MaxQty]

RECURSIVE SeqsUpTo(_, _)
SeqsUpTo(S, n) ==
    IF n = 0 THEN {<<>>}
    ELSE LET shorter == SeqsUpTo(S, n - 1)
         IN  shorter \cup {Append(s, x) : s \in {t \in shorter : Len(t) = n - 1}, x \in S}

\* The JSON bodies a checkout can carry: the items, and possibly a "total"
\* of the client's own, a field CheckoutPayload does not declare.
CheckoutBodies ==
    [items : SeqsUpTo(Items, MaxItems)
             \cup {<<[price |-> MaxPrice, quantity |-> 0]>>},
     total : {None, 99}]

CheckoutPayloadValid(body) ==
    \A i \in DOMAIN body.items : body.items[i].quantity >= 1

\* sum(item.price * item.quantity for item in payload.items)
RECURSIVE SumTotal(_)
SumTotal(items) ==
    IF items = <<>> THEN 0
    ELSE items[1].price * items[1].quantity + SumTotal(Tail(items))

\* The total taken from the body when the client sent one.
TotalFromClient(body) ==
    IF body.total # None THEN body.total ELSE SumTotal(body.items)

\* total = sum(...): computed from the items; payload has no total field.
ComputeTotal(body) == SumTotal(body.items)

\* OrderValid without the bound on total.
OrderValidAnyTotal(order) == TRUE

\* Order(...): total has ge=0.
OrderValid(order) == order.total >= 0

\* POST /api/orders
create_order(body, authorization) ==
    /\ request' = [op |-> "create_order", body |-> body,
                   authorization |-> authorization]
    /\ IF ~CheckoutPayloadValid(body)
       THEN /\ response' = [status |-> 422, user |-> None]
            /\ UNCHANGED orders
       ELSE \E user \in user_from_token(BearerToken(authorization)) :
            LET total == ComputeTotal(body)
                order == [user_id |-> user, items |-> body.items,
                          total |-> total, status |-> "pending"]
            IN  IF ~OrderValid(order)
                THEN /\ response' = [status |-> 500, user |-> user]
                     /\ UNCHANGED orders
                ELSE /\ Len(orders) < MaxOrders
                     /\ orders' = create_document(orders, order)
                     /\ response' = [status |-> 200, user |-> user,
                                     order_id |-> Len(orders) + 1,
                                     total |-> total]
    /\ UNCHANGED <<users, products, nextOid>>

\* OrderQuery matching the orders without owner as well.
OrderQueryWithGuests(user, o) ==
    users[user].is_admin \/ o.user_id = user \/ o.user_id = None

\* query = {} for an admin, {"user_id": user["_id"]} otherwise.
OrderQuery(user, o) == users[user].is_admin \/ o.user_id = user

\* .sort("created_at", 1): the orders of S, the oldest first.
RECURSIVE SortAscending(_)
SortAscending(S) ==
    IF S = {} THEN <<>>
    ELSE LET first == CHOOSE i \in S :
                 \A j \in S : orders[i].created_at <= orders[j].created_at
         IN  <<[_id |-> first, doc |-> orders[first]]>>
                 \o SortAscending(S \ {first})

\* .sort("created_at", -1): the orders of S, the newest first.
RECURSIVE SortDescending(_)
SortDescending(S) ==
    IF S = {} THEN <<>>
    ELSE LET first == CHOOSE i \in S :
                 \A j \in S : orders[j].created_at <= orders[i].created_at
         IN  <<[_id |-> first, doc |-> orders[first]]>>
                 \o SortDescending(S \ {first})

\* list(db["order"].find(query).sort("created_at", -1))
FindOrders(user) ==
    SortDescending({i \in DOMAIN orders : OrderQuery(user, orders[i])})

\* GET /api/orders
list_orders(authorization) ==
    /\ request' = [op |-> "list_orders", authorization |-> authorization]
    /\ \E user \in user_from_token(BearerToken(authorization)) :
          IF user = None
          THEN response' = [status |-> 401, user |-> None]
          ELSE response' = [status |-> 200, user |-> user,
                            orders |-> FindOrders(user)]
    /\ UNCHANGED <<users, products, nextOid, orders>>

\* ---------------------------------------------------------- specifications

\* A handler run as one step: no request is left in flight, nothing is
\* recorded.
Atomic == UNCHANGED <<inflight, history>>

NextAuth ==
    \/ \E e \in Emails, p \in Passwords : signup(e, p) /\ Atomic
    \/ \E e \in Emails, p \in Passwords : login(e, p) /\ Atomic
    \/ \E h \in Headers : me(h) /\ Atomic

NextProducts ==
    \/ \E s \in Searches : list_products(s) /\ Atomic
    \/ \E b \in ProductBodies, h \in Headers : create_product(b, h) /\ Atomic
    \/ \E s \in IdStrings, b \in ProductBodies, h \in Headers :
          update_product(s, b, h) /\ Atomic
    \/ \E s \in IdStrings, h \in Headers : delete_product(s, h) /\ Atomic

NextOrders ==
    \/ \E b \in CheckoutBodies, h \in Headers : create_order(b, h) /\ Atomic
    \/ \E h \in Headers : list_orders(h) /\ Atomic

Next == NextAuth \/ NextProducts \/ NextOrders

\* Every request, in any order.
Spec == Init /\ [][Next]_vars

\* Requests to the auth endpoints only.
SpecAuth == Init /\ [][NextAuth]_vars

\* Logins and the catalog: the product handlers read the user collection and
\* read and write the product collection only.
NextCatalog ==
    \/ \E e \in Emails, p \in Passwords : login(e, p) /\ Atomic
    \/ NextProducts

SpecCatalog == Init /\ [][NextCatalog]_vars

\* The auth endpoints and the orders, with three checkout bodies: one the
\* schemas accept, one whose total is negative, one with a quantity of 0.
OwnerBodies ==
    {[items |-> <<[price |-> p, quantity |-> q]>>, total |-> None] :
        p \in {MinPrice, MaxPrice}, q \in {0, 1}}

NextOwners ==
    \/ NextAuth
    \/ \E b \in OwnerBodies, h \in Headers : create_order(b, h) /\ Atomic
    \/ \E h \in Headers : list_orders(h) /\ Atomic

SpecOrders == Init /\ [][NextOwners]_vars

\* Logins of one user, and checkouts into an empty order collection with
\* every body, sent without a header or with a token some user holds.
NextCheckout ==
    \/ login("ann@x.com", "pw2") /\ Atomic
    \/ \E b \in CheckoutBodies :
       \E h \in {x \in Headers : x.scheme = "none" \/
                     (x.scheme = "Bearer" /\ user_from_token(x.cred) # {None})} :
          orders = <<>> /\ create_order(b, h) /\ Atomic

SpecCheckout == Init /\ [][NextCheckout]_vars
\* The requests that only read, among requests that write each collection:
\* logins, an administrator's deletes, checkouts.  `history` holds whether
\* the request before the last one was a catalog fetch without filter.
Unfiltered(req) ==
    req.op = "list_products" /\ req.search \in {None, EmptyStr}

Remembered == inflight' = inflight /\ history' = <<Unfiltered(request)>>

NextReads ==
    \/ \E s \in Searches : list_products(s) /\ Remembered
    \/ \E h \in Headers : me(h) /\ Remembered
    \/ \E h \in Headers : list_orders(h) /\ Remembered
    \/ \E e \in Emails, p \in Passwords : login(e, p) /\ Remembered
    \/ \E s \in IdStrings, h \in Headers : delete_product(s, h) /\ Remembered
    \/ \E b \in OwnerBodies, h \in Headers : create_order(b, h) /\ Remembered

SpecReads == Init /\ [][NextReads]_vars

\* Signups and logins interleaved at their store operations.
NextRace ==
    \/ \E e \in Emails, p \in Passwords : signup_find(e, p)
    \/ \E r \in inflight : signup_insert(r)
    \/ \E e \in Emails, p \in Passwords : login_find(e, p)
    \/ \E r \in inflight : login_update(r)

SpecRace == Init /\ [][NextRace]_vars

\* Every route, for the two accounts of Init (so that an account can also be
\* one that signed up), updates with a body Product accepts and checkouts of
\* one item into an empty order collection.
Accounts == {<<"admin@x.com", "pw1">>, <<"ann@x.com", "pw2">>}

PlainProduct == [has_title |-> TRUE, price |-> MaxPrice]

PlainCheckout ==
    [items |-> <<[price |-> MaxPrice, quantity |-> 1]>>, total |-> None]

NextRoutes ==
    \/ \E a \in Accounts : signup(a[1], a[2]) /\ Atomic
    \/ \E a \in Accounts : login(a[1], a[2]) /\ Atomic
    \/ \E h \in Headers : me(h) /\ Atomic
    \/ \E s \in Searches : list_products(s) /\ Atomic
    \/ \E b \in ProductBodies, h \in Headers : create_product(b, h) /\ Atomic
    \/ \E s \in IdStrings, h \in Headers :
          update_product(s, PlainProduct, h) /\ Atomic
    \/ \E s \in IdStrings, h \in Headers : delete_product(s, h) /\ Atomic
    \/ \E h \in Headers :
          orders = <<>> /\ create_order(PlainCheckout, h) /\ Atomic
    \/ \E h \in Headers : list_orders(h) /\ Atomic

SpecRoutes == Init /\ [][NextRoutes]_vars

\* ------------------------------------------------------------------ claims
\* What the claims mean by a caller's identity, stated on the store itself.

\* No identity: no Bearer header, nothing after "Bearer ", or a token that
\* no user record holds.
Anonymous(h) ==
    \/ h.scheme # "Bearer"
    \/ h.cred = EmptyStr
    \/ \A i \in DOMAIN users : users[i].token # h.cred

\* u is None and the header gives no identity, or u is a user record whose
\* stored token is the header's Bearer token.
ResolvedAs(h, u) ==
    IF u = None THEN Anonymous(h)
    ELSE /\ u \in DOMAIN users
         /\ h.scheme = "Bearer"
         /\ h.cred # EmptyStr
         /\ users[u].token = h.cred

IsAdmin(u) == u # None /\ users[u].is_admin

\* The header's token is held by some user and by no administrator.
NonAdminCaller(h) ==
    /\ h.scheme = "Bearer"
    /\ \E i \in DOMAIN users : users[i].token = h.cred
    /\ \A i \in DOMAIN users : users[i].token = h.cred => ~users[i].is_admin

\* Sum of price x quantity over items[1..n].
RECURSIVE SigmaPQ(_, _)
SigmaPQ(items, n) ==
    IF n = 0 THEN 0
    ELSE SigmaPQ(items, n - 1) + items[n].quantity * items[n].price

AdminRoutes == {"create_product", "update_product", "delete_product"}

ReachesHandler(req) == req.op = "delete_product" \/ req.body.has_title

C2_AdminGate ==
    [][(request'.op \in AdminRoutes /\ ReachesHandler(request')) =>
        /\ ResolvedAs(request'.authorization, response'.user)
        /\ response'.status = 403 <=> ~IsAdmin(response'.user)
        /\ response'.status # 401
        /\ response'.status = 403 =>
              (products' = products /\ nextOid' = nextOid)]_vars

\* C2 witness: a signed-in user who is no administrator sends a PUT with a
\* malformed product id and gets 403.
C2_Witness ==
    /\ request.op = "update_product"
    /\ request.product_id = NotHex
    /\ request.body.has_title
    /\ response.status = 403
    /\ response.user # None

\* C3: the list GET /api/orders returns to an identity that is no
\* administrator holds exactly the stored orders whose user_id is that
\* identity's id, each once and as stored: no order of another user, no guest
\* order.
C3_OwnOrdersOnly ==
    (request.op = "list_orders" /\ response.status = 200
        /\ ~users[response.user].is_admin) =>
        LET got == response.orders
        IN  /\ ResolvedAs(request.authorization, response.user)
            /\ {got[k]._id : k \in DOMAIN got}
                  = {i \in DOMAIN orders : orders[i].user_id = response.user}
            /\ \A k \in DOMAIN got : got[k].doc = orders[got[k]._id]
            /\ \A j, k \in DOMAIN got : got[j]._id = got[k]._id => j = k

\* C3 witness: a user who is no administrator lists orders and gets one of
\* their own, while the store also holds a guest order.
C3_Witness ==
    /\ request.op = "list_orders"
    /\ response.status = 200
    /\ ~users[response.user].is_admin
    /\ Len(response.orders) >= 1
    /\ \E i \in DOMAIN orders : orders[i].user_id = None

\* C4: a signup whose email a stored user record already has is answered 400
\* and leaves the user collection as it was.
C4_DuplicateSignup ==
    [][(request'.op = "signup"
          /\ \E i \in DOMAIN users : users[i].email = request'.email) =>
        (response'.status = 400 /\ users' = users)]_vars

\* C4 witness: a signup was answered 400 while the store holds that email.
C4_Witness ==
    /\ request.op = "signup"
    /\ response.status = 400
    /\ \E i \in DOMAIN users : users[i].email = request.email

\* C5: a login is answered 200 iff some user record has the email given and
\* its stored digest is the hash of the password given; every other login is
\* answered 401 and leaves the store, every stored token included, as it was.
CredentialsMatch(email, password) ==
    \E i \in DOMAIN users :
        /\ users[i].email = email
        /\ users[i].password_hash = hash_password(password)

C5_LoginIff ==
    [][request'.op = "login" =>
        /\ response'.status = 200
              <=> CredentialsMatch(request'.email, request'.password)
        /\ ~CredentialsMatch(request'.email, request'.password) =>
              /\ response'.status = 401
              /\ users' = users
              /\ products' = products
              /\ orders' = orders]_vars

\* C5 witness: a login with a wrong password for a user who holds a token was
\* answered 401, and the token is still stored.
C5_Witness ==
    /\ request.op = "login"
    /\ response.status = 401
    /\ \E i \in DOMAIN users :
          /\ users[i].email = request.email
          /\ users[i].token # None

\* C6: GET /api/me and GET /api/orders are answered 401 iff the header gives
\* no identity, and 200 otherwise, for the identity the token belongs to,
\* administrator or not.
C6_Unauthenticated ==
    request.op \in {"me", "list_orders"} =>
        /\ response.status = 401 <=> Anonymous(request.authorization)
        /\ response.status \in {200, 401}
        /\ ResolvedAs(request.authorization, response.user)

\* C6 witness: GET /api/orders with a stored token sent under another scheme
\* than Bearer was answered 401.
C6_Witness ==
    /\ request.op = "list_orders"
    /\ request.authorization.scheme = "Basic"
    /\ \E i \in DOMAIN users : users[i].token = request.authorization.cred
    /\ response.status = 401

\* C7: a checkout whose body CheckoutPayload accepts is never answered 401 or
\* 403; when its total is not negative an order is stored; and the order
\* stored has as user_id the id of the user whose stored token is the Bearer
\* token sent, or None when the header gives no identity.
WellFormed(body) == \A k \in DOMAIN body.items : body.items[k].quantity >= 1

C7_PublicCheckout ==
    (request.op = "create_order" /\ WellFormed(request.body)) =>
        /\ response.status \notin {401, 403}
        /\ ResolvedAs(request.authorization, response.user)
        /\ SigmaPQ(request.body.items, Len(request.body.items)) >= 0 =>
              response.status = 200
        /\ response.status = 200 =>
              /\ response.order_id = Len(orders)
              /\ orders[response.order_id].user_id = response.user
              /\ orders[response.order_id].items = request.body.items

\* C7 witness: a checkout with a Bearer token no user holds, while some user
\* holds another token, stored a guest order.
C7_Witness ==
    /\ request.op = "create_order"
    /\ request.authorization.scheme = "Bearer"
    /\ request.authorization.cred \in Tokens
    /\ \E i \in DOMAIN users : users[i].token # None
    /\ \A i \in DOMAIN users : users[i].token # request.authorization.cred
    /\ response.status = 200
    /\ orders[response.order_id].user_id = None

\* C8: a checkout answered 200 returns, and stores in the order, the sum of
\* price x quantity over the items sent, whatever total the body carried.
C8_ServerTotal ==
    (request.op = "create_order" /\ response.status = 200) =>
        LET items == request.body.items
        IN  /\ response.total = SigmaPQ(items, Len(items))
            /\ orders[response.order_id].total = SigmaPQ(items, Len(items))
            /\ orders[response.order_id].items = items

\* C8 witness: a checkout of two items, one of them with quantity 2, whose
\* body carried a total of its own was answered 200 with another total.
C8_Witness ==
    /\ request.op = "create_order"
    /\ response.status = 200
    /\ Len(request.body.items) = 2
    /\ \E k \in DOMAIN request.body.items : request.body.items[k].quantity = 2
    /\ request.body.total # None
    /\ response.total # request.body.total

\* C9 as claimed: POST /api/products by an identity that is no administrator
\* is answered 403 and creates no product, whatever the body.
C9_Forbidden_AnyPayload ==
    [][(request'.op = "create_product"
          /\ NonAdminCaller(request'.authorization)) =>
        /\ response'.status = 403
        /\ products' = products
        /\ nextOid' = nextOid]_vars

\* C9 as amended: POST /api/products by an identity that is no administrator
\* creates no product; it is answered 403 when ProductPayload accepts the
\* body, whether or not Product accepts it (a negative price), and 422 when
\* ProductPayload rejects the body.
C9_Forbidden_ParsedPayload ==
    [][(request'.op = "create_product"
          /\ NonAdminCaller(request'.authorization)) =>
        /\ response'.status = IF request'.body.has_title THEN 403 ELSE 422
        /\ products' = products
        /\ nextOid' = nextOid]_vars

\* C9 witness: a user who is no administrator posted a product with a
\* negative price and was answered 403.
C9_Witness ==
    /\ request.op = "create_product"
    /\ NonAdminCaller(request.authorization)
    /\ request.body.has_title
    /\ request.body.price < 0
    /\ response.status = 403

\* C10: for an administrator whose request reaches the handler, PUT and DELETE
\* /api/products/{id} are answered 400 for a malformed id and 404 for a
\* well-formed id no stored product has, the product collection staying as it
\* was; for the id of a stored product DELETE removes that product and PUT
\* sets that product, every other product staying as it was.
C10_ProductById ==
    [][(request'.op \in {"update_product", "delete_product"}
          /\ ReachesHandler(request') /\ IsAdmin(response'.user)) =>
        LET id == request'.product_id
        IN  /\ id = NotHex =>
                  (response'.status = 400 /\ products' = products)
            /\ (id # NotHex /\ id \notin DOMAIN products) =>
                  (response'.status = 404 /\ products' = products)
            /\ (id \in DOMAIN products) =>
                  /\ response'.status = 200
                  /\ \A j \in DOMAIN products \ {id} :
                        j \in DOMAIN products' /\ products'[j] = products[j]
                  /\ IF request'.op = "delete_product"
                     THEN DOMAIN products' = DOMAIN products \ {id}
                     ELSE /\ DOMAIN products' = DOMAIN products
                          /\ products'[id].price = request'.body.price]_vars

\* C10 witness: an administrator's PUT changed the price of one of two
\* stored products.
C10_Witness ==
    /\ request.op = "update_product"
    /\ response.status = 200
    /\ Cardinality(DOMAIN products) >= 2
    /\ \E i, j \in DOMAIN products : products[i].price # products[j].price

\* C11: the identity a request is handled under is a user record iff the
\* token presented is neither absent nor empty and is the stored token of
\* some user, and then it is a user who stores that token; an absent or empty
\* token gives no identity even when some user's stored token is null; and a
\* token that gives no identity is answered as anonymous, never with a 500.
Resolving(req) ==
    \/ req.op \in {"me", "list_orders"}
    \/ req.op = "create_order" /\ WellFormed(req.body)

C11_TokenResolution ==
    Resolving(request) =>
        LET token == BearerToken(request.authorization)
            u     == response.user
        IN  /\ u # None <=>
                  /\ token \notin {None, EmptyStr}
                  /\ \E i \in DOMAIN users : users[i].token = token
            /\ u # None => (u \in DOMAIN users /\ users[u].token = token)
            /\ token \in {None, EmptyStr} => u = None
            /\ response.status = 500 =>
                  /\ request.op = "create_order"
                  /\ SigmaPQ(request.body.items, Len(request.body.items)) < 0

\* C11 witness: while a user who signed up and never logged in is stored with
\* a null token, GET /api/me without a token was answered 401 as anonymous.
C11_Witness ==
    /\ request.op = "me"
    /\ BearerToken(request.authorization) = None
    /\ \E i \in DOMAIN users : users[i].token = None
    /\ response.user = None
    /\ response.status = 401

\* C12: the list GET /api/orders returns to an administrator holds every
\* stored order once and as stored, whoever placed it, a later created order
\* before every earlier created one, so the order created last comes first.
C12_AdminSeesAll ==
    (request.op = "list_orders" /\ response.status = 200
        /\ users[response.user].is_admin) =>
        LET got == response.orders
        IN  /\ Len(got) = Len(orders)
            /\ {got[k]._id : k \in DOMAIN got} = DOMAIN orders
            /\ \A k \in DOMAIN got : got[k].doc = orders[got[k]._id]
            /\ \A j, k \in DOMAIN got :
                  j < k => got[j].doc.created_at > got[k].doc.created_at
            /\ orders # <<>> => got[1]._id = Len(orders)

\* C12 witness: an administrator lists orders and gets two, a guest order
\* and an order of another user.
C12_Witness ==
    /\ request.op = "list_orders"
    /\ response.status = 200
    /\ users[response.user].is_admin
    /\ Len(response.orders) = 2
    /\ \E i \in DOMAIN orders : orders[i].user_id = None
    /\ \E i \in DOMAIN orders : orders[i].user_id \notin {None, response.user}

\* C13: GET /api/products, GET /api/me and GET /api/orders, the resolution of
\* the token included, leave the user, product and order collections as they
\* were; and of two catalog fetches without filter, one right after the
\* other, the second returns the set of products the first returned.
ReadRoutes == {"list_products", "me", "list_orders"}

C13_ReadsAreReadOnly ==
    [][/\ request'.op \in ReadRoutes =>
             /\ users' = users
             /\ products' = products
             /\ nextOid' = nextOid
             /\ orders' = orders
       /\ (Unfiltered(request) /\ Unfiltered(request')) =>
             response'.products = response.products]_vars

\* C13 witness: the second of two consecutive catalog fetches without filter
\* has returned the one stored product, in a store where a user holds a
\* token and an order was placed.
C13_Witness ==
    /\ history = <<TRUE>>
    /\ Unfiltered(request)
    /\ Cardinality(response.products) = 1
    /\ \E i \in DOMAIN users : users[i].token # None
    /\ orders # <<>>

\* C14: no two user records have the same email, also when signups
\* interleave at their store operations; and of two signups for one email
\* that ran concurrently at most one was answered 200.
Concurrent(a, b) == a.id \in b.during \/ b.id \in a.during

C14_EmailUnique ==
    /\ \A i, j \in DOMAIN users : users[i].email = users[j].email => i = j
    /\ \A a, b \in DOMAIN history :
          (/\ a # b
           /\ history[a].op = "signup" /\ history[b].op = "signup"
           /\ history[a].email = history[b].email
           /\ Concurrent(history[a], history[b])) =>
              ~(history[a].status = 200 /\ history[b].status = 200)

\* C15: a user record stores at most one token; and once two concurrent
\* logins of one user have both been answered 200, no login answered 200
\* since, the token returned last is the one stored for that user, and the
\* token returned first is another one, which no user record stores.
SuccessfulLogin(h) == h.op = "login" /\ h.status = 200

C17_NonNegativeTotals ==
    [][/\ \A i \in DOMAIN orders' :
             orders'[i].total >= 0 /\ orders'[i].status = "pending"
       /\ (request'.op = "create_order" /\ WellFormed(request'.body)) =>
             LET sigma == SigmaPQ(request'.body.items,
                                  Len(request'.body.items))
             IN  IF sigma < 0
                 THEN response'.status = 500 /\ orders' = orders
                 ELSE /\ response'.status = 200
                      /\ Len(orders') = Len(orders) + 1
                      /\ \A i \in DOMAIN orders : orders'[i] = orders[i]
                      /\ orders'[Len(orders')].total = sigma
                      /\ orders'[Len(orders')].status = "pending"]_vars

\* C17 witness: a checkout of two items, one priced above zero, whose sum is
\* negative was answered 500 and the order collection is empty.
C17_Witness ==
    /\ request.op = "create_order"
    /\ Len(request.body.items) = 2
    /\ \E k \in DOMAIN request.body.items : request.body.items[k].price > 0
    /\ SigmaPQ(request.body.items, 2) < 0
    /\ response.status = 500
    /\ orders = <<>>

\* C18: no request changes the is_admin flag of a stored user or removes a
\* user; a user record a request adds has is_admin false and a null token;
\* and a request handled while no stored user is an administrator leaves the
\* product collection as it was, so that a store without administrator still
\* has the catalog it started with.
NoAdmin(us) == \A i \in DOMAIN us : ~us[i].is_admin

C18_NoEscalation ==
    [][/\ \A i \in DOMAIN users :
             i \in DOMAIN users' /\ users'[i].is_admin = users[i].is_admin
       /\ \A i \in DOMAIN users' \ DOMAIN users :
             ~users'[i].is_admin /\ users'[i].token = None
       /\ NoAdmin(users) => (products' = products /\ nextOid' = nextOid)
       /\ NoAdmin(users') =>
             (DOMAIN products' = {1} /\ products'[1].price = MaxPrice)]_vars

\* C18 witness: in a store without administrator, a user who signed up and
\* logged in posted a product Product accepts and was answered 403.
C18_Witness ==
    /\ users # <<>>
    /\ NoAdmin(users)
    /\ request.op = "create_product"
    /\ response.status = 403
    /\ response.user # None

====
